---- MODULE Spec2Model ----
(***************************************************************************)
(* Model of src/app.py (DesktopInsightApp): capability discovery,          *)
(* month-over-month analysis and narrative generation.                     *)
(*                                                                         *)
(* Numbers are exact rationals [n, d] with d > 0; the IEEE results of a    *)
(* division by zero are kept as d = 0 (1/0 = inf, -1/0 = -inf, 0/0 = nan). *)
(* Dates are calendar days [y, m, d] (the Date column holds days).         *)
(* Strings that the code edits are sequences of one-character strings.     *)
(* Not modelled: the Tk dialogs' widgets, CSV cleaning in load_data, the   *)
(* text of the prompt, trend_data and save_pdf (rendering).                *)
(***************************************************************************)
EXTENDS Integers, Sequences, FiniteSets

VARIABLES
    svc,              \* the external service: what list_models() answers
    pc,               \* position of the driver (the __main__ block)
    ret,              \* value returned by get_api_key
    api_key,          \* self.api_key
    model,            \* self.model (the handle is the model's name)
    model_name,       \* self.model_name
    df,               \* self.df
    period,           \* analyze's locals: the four period bounds
    reporting_period, \* self.reporting_period
    client_reports,   \* self.client_reports: company -> report
    order,            \* insertion order of the keys of self.client_reports
    calls             \* log of the generate_content calls made

vars == <<svc, pc, ret, api_key, model, model_name, df, period,
          reporting_period, client_reports, order, calls>>

-----------------------------------------------------------------------------
(* Bounds *)

\* largest number of rows of a dataset
MaxRecords == 3

-----------------------------------------------------------------------------
(* Python values *)

None == "<None>"

Truthy(s) == s # None /\ s # ""

RECURSIVE SeqToSet(_)
SeqToSet(s) == IF s = <<>> THEN {} ELSE {Head(s)} \cup SeqToSet(Tail(s))

-----------------------------------------------------------------------------
(* Float arithmetic, kept exact *)

Abs(x) == IF x < 0 THEN -x ELSE x

Sign(x) == IF x > 0 THEN 1 ELSE IF x < 0 THEN -1 ELSE 0

RECURSIVE GCD(_, _)
GCD(a, b) == IF b = 0 THEN a ELSE GCD(b, a % b)

\* n/d in lowest terms; d = 0 gives inf, -inf or nan
Rat(n, d) ==
    IF d = 0 THEN [n |-> Sign(n), d |-> 0]
    ELSE LET g == GCD(Abs(n), Abs(d))
             s == Sign(d)
         IN  [n |-> (s * n) \div g, d |-> (s * d) \div g]

FromInt(i) == [n |-> i, d |-> 1]

NaN == [n |-> 0, d |-> 0]

IsZero(a) == a.d # 0 /\ a.n = 0

RatAdd(a, b) == Rat(a.n * b.d + b.n * a.d, a.d * b.d)

RatSub(a, b) == Rat(a.n * b.d - b.n * a.d, a.d * b.d)

RatMulInt(a, k) == Rat(a.n * k, a.d)

\* a / b on floats: a zero divisor gives inf, -inf or nan, it does not raise
RatDiv(a, b) == IF IsZero(b) THEN Rat(a.n, 0) ELSE Rat(a.n * b.d, a.d * b.n)

\* a > b on floats: false when either side is nan
RatGT(a, b) ==
    /\ a # NaN
    /\ b # NaN
    /\ IF a.d = 0 /\ b.d = 0 THEN a.n > b.n
       ELSE IF a.d = 0 THEN a.n > 0
       ELSE IF b.d = 0 THEN b.n < 0
       ELSE a.n * b.d > b.n * a.d

RECURSIVE RatSum(_)
RatSum(s) == IF s = <<>> THEN FromInt(0) ELSE RatAdd(Head(s), RatSum(Tail(s)))

\* Series.mean(): nan on an empty series
RatMean(s) == IF s = <<>> THEN NaN ELSE Rat(RatSum(s).n, RatSum(s).d * Len(s))

-----------------------------------------------------------------------------
(* Calendar: Timestamp.replace(day=1) and Timestamp - Timedelta(days=1) *)

Date(y, m, d) == [y |-> y, m |-> m, d |-> d]

IsLeap(y) == (y % 4 = 0 /\ y % 100 # 0) \/ y % 400 = 0

DaysInMonth(y, m) ==
    IF m = 2 THEN (IF IsLeap(y) THEN 29 ELSE 28)
    ELSE IF m \in {4, 6, 9, 11} THEN 30 ELSE 31

\* days of the years before year y
DaysBeforeYear(y) ==
    (y - 1) * 365 + ((y - 1) \div 4) - ((y - 1) \div 100) + ((y - 1) \div 400)

RECURSIVE DaysBeforeMonth(_, _)
DaysBeforeMonth(y, m) ==
    IF m = 1 THEN 0 ELSE DaysBeforeMonth(y, m - 1) + DaysInMonth(y, m - 1)

\* the day count a Timestamp stands for
ToOrdinal(dt) == DaysBeforeYear(dt.y) + DaysBeforeMonth(dt.y, dt.m) + dt.d

\* the Timestamp of a day count
FromOrdinal(n) ==
    LET y == CHOOSE yy \in ((n \div 366) + 1)..((n \div 365) + 1) :
                 DaysBeforeYear(yy) < n /\ n <= DaysBeforeYear(yy + 1)
        r == n - DaysBeforeYear(y)
        m == CHOOSE mm \in 1..12 :
                 DaysBeforeMonth(y, mm) < r /\ r <= DaysBeforeMonth(y, mm) + DaysInMonth(y, mm)
    IN  Date(y, m, r - DaysBeforeMonth(y, m))

DateLE(a, b) == ToOrdinal(a) <= ToOrdinal(b)

ReplaceDay1(dt) == Date(dt.y, dt.m, 1)

\* mutant: a month is subtracted, not a day
MinusOneMonth(dt) ==
    Date(IF dt.m = 1 THEN dt.y - 1 ELSE dt.y, IF dt.m = 1 THEN 12 ELSE dt.m - 1, dt.d)

MinusOneDay(dt) == FromOrdinal(ToOrdinal(dt) - 1)

MonthNames ==
    <<"January", "February", "March", "April", "May", "June", "July",
      "August", "September", "October", "November", "December">>

\* strftime("%B %Y")
StrfMonthYear(dt) == [month |-> MonthNames[dt.m], year |-> dt.y]

-----------------------------------------------------------------------------
(* The reasoning service and capability discovery *)

GeminiPro15 == "models/gemini-1.5-pro"

GeminiFlash15 == "models/gemini-1.5-flash"

GeminiPro == "models/gemini-pro"

GeminiProLatest == "models/gemini-1.5-pro-latest"

TextBison == "models/text-bison-001"

ModelNames == {GeminiPro15, GeminiFlash15, GeminiPro, GeminiProLatest, TextBison}

\* 'gemini' in m
HasGemini(m) == m \in {GeminiPro15, GeminiFlash15, GeminiPro, GeminiProLatest}

priorities == <<GeminiPro15, GeminiFlash15, GeminiPro>>

\* one entry of list_models(): m.name and 'generateContent' in m.supported_generation_methods
ModelEntry(name, gen) == [name |-> name, gen |-> gen]

\* every enumeration of distinct models of S, each with or without generateContent
RECURSIVE Listings(_)
Listings(S) ==
    {<<>>} \cup
    UNION {{<<ModelEntry(x, g)>> \o t : t \in Listings(S \ {x}), g \in BOOLEAN} : x \in S}

Service(listing, raises) == [listing |-> listing, raises |-> raises]

\* every answer of the service: an enumeration, or an error (invalid key, network)
AllServices ==
    {Service(l, FALSE) : l \in Listings(ModelNames)} \cup {Service(<<>>, TRUE)}

\* the answers the pipeline runs are checked with
PipelineServices ==
    { Service(<<ModelEntry(GeminiFlash15, TRUE), ModelEntry(GeminiPro15, TRUE)>>, FALSE),
      Service(<<ModelEntry(TextBison, TRUE), ModelEntry(GeminiPro, FALSE)>>, FALSE),
      Service(<<>>, TRUE) }

\* the loop of lines 52-54
RECURSIVE available_models(_)
available_models(listing) ==
    IF listing = <<>> THEN <<>>
    ELSE IF Head(listing).gen
         THEN <<Head(listing).name>> \o available_models(Tail(listing))
         ELSE available_models(Tail(listing))

\* mutant: the first listed model that is a priority entry
FirstListedPriority(avail) ==
    LET hits == {i \in 1..Len(avail) : avail[i] \in SeqToSet(priorities)}
    IN  IF hits = {} THEN None
        ELSE avail[CHOOSE i \in hits : \A j \in hits : i <= j]

\* for p in priorities: if p in available_models: return p
FirstPriority(avail) ==
    LET hits == {i \in 1..Len(priorities) : priorities[i] \in SeqToSet(avail)}
    IN  IF hits = {} THEN None
        ELSE priorities[CHOOSE i \in hits : \A j \in hits : i <= j]

\* for m in available_models: if 'gemini' in m: return m
FirstGemini(avail) ==
    LET hits == {i \in 1..Len(avail) : HasGemini(avail[i])}
    IN  IF hits = {} THEN None
        ELSE avail[CHOOSE i \in hits : \A j \in hits : i <= j]

find_working_model(s) ==
    IF s.raises THEN None
    ELSE LET avail == available_models(s.listing)
         IN  IF FirstPriority(avail) # None THEN FirstPriority(avail)
             ELSE FirstGemini(avail)

\* what the user types in the key dialog: cancel, nothing, a key
KeyInputs == {None, "", "AIza-key"}

-----------------------------------------------------------------------------
(* Datasets: the rows load_data leaves in self.df *)

Row(date, company, channel, m) ==
    [date |-> date, company |-> company, channel |-> channel,
     cost |-> m.cost, roi |-> m.roi, conv |-> m.conv]

\* Acquisition_Cost, ROI, Conversion_Rate of a row
Measure(cost, roi, conv) == [cost |-> cost, roi |-> roi, conv |-> conv]

GridDates == <<Date(2024, 1, 31), Date(2024, 2, 29), Date(2024, 3, 1)>>

Companies == <<"Acme", "Globex">>

Channels == <<"Search", "Social">>

GridMeasures ==
    << Measure(FromInt(0), FromInt(0), FromInt(0)),
       Measure(FromInt(1), FromInt(1), Rat(1, 100)) >>

\* the k-th row of the grid, k counted from 0, dates most significant
GridRow(k) ==
    LET nm == Len(GridMeasures)
        nh == Len(Channels)
        nc == Len(Companies)
    IN  Row(GridDates[(k \div (nm * nh * nc)) + 1],
            Companies[((k \div (nm * nh)) % nc) + 1],
            Channels[((k \div nm) % nh) + 1],
            GridMeasures[(k % nm) + 1])

GridSize == Len(GridDates) * Len(Companies) * Len(Channels) * Len(GridMeasures)

\* the nondecreasing index sequences of at most n entries below size
RECURSIVE SortedIdx(_, _)
SortedIdx(n, size) ==
    IF n = 0 THEN {<<>>}
    ELSE LET prev == SortedIdx(n - 1, size)
         IN  prev \cup
             UNION {{Append(s, i) : i \in (IF s = <<>> THEN 0 ELSE s[Len(s)])..(size - 1)} :
                    s \in {t \in prev : Len(t) = n - 1}}

\* the datasets of 1..n rows drawn from the grid rows of index idx[1], idx[2], ...
DatasetsOver(idx, n) ==
    {[k \in 1..Len(s) |-> GridRow(idx[s[k] + 1])] : s \in SortedIdx(n, Len(idx)) \ {<<>>}}

\* every dataset of 1..MaxRecords grid rows, rows in date order (the aggregates
\* do not depend on the order of the rows; both orders of the companies occur)
GridDatasets == DatasetsOver([k \in 1..GridSize |-> k - 1], MaxRecords)

\* the datasets whose rows are of the last two dates and of the second measure
SmallDatasets ==
    DatasetsOver(SelectSeq([k \in 1..GridSize |-> k - 1],
                           LAMBDA k : /\ GridRow(k).date # GridDates[1]
                                      /\ GridRow(k).roi = GridMeasures[2].roi),
                 MaxRecords)

CalendarYears == {2000, 2023, 2024, 2100}

CalendarDates ==
    {dt \in [y : CalendarYears, m : 1..12, d : 1..31] : dt.d <= DaysInMonth(dt.y, dt.m)}

\* one row for every day of the calendar years, alone or after a row of the
\* other client dated the first day of the calendar
CalendarDatasets ==
    {<<Row(dt, Companies[1], Channels[1], GridMeasures[2])>> : dt \in CalendarDates} \cup
    {<<Row(Date(2000, 1, 1), Companies[2], Channels[2], GridMeasures[2]),
       Row(dt, Companies[1], Channels[1], GridMeasures[2])>> : dt \in CalendarDates}

-----------------------------------------------------------------------------
(* analyze *)

RECURSIVE Unique(_)
\* Series.unique(): the values in order of first appearance
Unique(s) ==
    IF s = <<>> THEN <<>>
    ELSE LET init == Unique(SubSeq(s, 1, Len(s) - 1))
             x == s[Len(s)]
         IN  IF x \in SeqToSet(init) THEN init ELSE Append(init, x)

\* d['Company'], d['Acquisition_Cost'], d['ROI'], d['Conversion_Rate']
CompanyCol(d) == [i \in 1..Len(d) |-> d[i].company]

CostCol(d) == [i \in 1..Len(d) |-> d[i].cost]

RoiCol(d) == [i \in 1..Len(d) |-> d[i].roi]

ConvCol(d) == [i \in 1..Len(d) |-> d[i].conv]

\* df['Date'].max()
MaxDate(d) ==
    LET ds == {d[i].date : i \in 1..Len(d)}
    IN  CHOOSE x \in ds : \A e \in ds : DateLE(e, x)

Periods(d) ==
    LET last_date == MaxDate(d)
        current_month_start == ReplaceDay1(last_date)
        prev_month_end == MinusOneDay(current_month_start)
        prev_month_start == ReplaceDay1(prev_month_end)
    IN  [last_date |-> last_date, current_month_start |-> current_month_start,
         prev_month_end |-> prev_month_end, prev_month_start |-> prev_month_start]

\* mutant: the lower bound is exclusive
BetweenStrict(d, lo, hi) ==
    SelectSeq(d, LAMBDA r : ~DateLE(r.date, lo) /\ DateLE(r.date, hi))

\* c_df[(c_df['Date'] >= lo) & (c_df['Date'] <= hi)]
Between(d, lo, hi) == SelectSeq(d, LAMBDA r : DateLE(lo, r.date) /\ DateLE(r.date, hi))

c_df(d, company) == SelectSeq(d, LAMBDA r : r.company = company)

curr_df(d, company) ==
    Between(c_df(d, company), Periods(d).current_month_start, Periods(d).last_date)

prev_df(d, company) ==
    Between(c_df(d, company), Periods(d).prev_month_start, Periods(d).prev_month_end)

get_metrics(d) ==
    [spend |-> RatSum(CostCol(d)),
     roi   |-> RatMean(RoiCol(d)),
     conv  |-> RatMulInt(RatMean(ConvCol(d)), 100)]

\* {'spend':1, 'roi':1, 'conv':1}
Sentinel == [spend |-> FromInt(1), roi |-> FromInt(1), conv |-> FromInt(1)]

\* mutant: the empty previous period is aggregated like any other
PrevMetricsNoFallback(pd) == get_metrics(pd)

PrevMetrics(pd) == IF pd # <<>> THEN get_metrics(pd) ELSE Sentinel

\* ((curr - prev) / prev) * 100
Pct(curr, prev) == RatMulInt(RatDiv(RatSub(curr, prev), prev), 100)

Delta(curr, prev) ==
    [spend_pct |-> Pct(curr.spend, prev.spend),
     roi_pct   |-> Pct(curr.roi, prev.roi),
     conv_pct  |-> Pct(curr.conv, prev.conv)]

\* curr_df.groupby('Channel_Used')['ROI'].mean()
ChannelMean(cd, ch) == RatMean(RoiCol(SelectSeq(cd, LAMBDA r : r.channel = ch)))

ChannelsOf(cd) == {cd[i].channel : i \in 1..Len(cd)}

\* mutant: the sort is ascending
WorstChannels(cd) ==
    {ch \in ChannelsOf(cd) :
        \A o \in ChannelsOf(cd) : ~RatGT(ChannelMean(cd, ch), ChannelMean(cd, o))}

\* what sort_values(ascending=False) may put first: a channel no other channel
\* beats; the order among equal means is the sort's, which is not stable
BestChannels(cd) ==
    {ch \in ChannelsOf(cd) :
        \A o \in ChannelsOf(cd) : ~RatGT(ChannelMean(cd, o), ChannelMean(cd, ch))}

Pending == <<"Pending...">>

Report(d, company, best) ==
    LET curr == get_metrics(curr_df(d, company))
        prev == PrevMetrics(prev_df(d, company))
    IN  [current |-> curr,
         prev |-> prev,
         delta |-> Delta(curr, prev),
         best_channel |-> best,
         best_channel_roi |-> ChannelMean(curr_df(d, company), best),
         narrative |-> Pending]

\* the companies the loop does not skip (line 139), in loop order
Reporting(d) ==
    SelectSeq(Unique(CompanyCol(d)), LAMBDA c : curr_df(d, c) # <<>>)

-----------------------------------------------------------------------------
(* generate_report_text *)

AIUnavailable == <<"AI Unavailable.">>

DemoMode == <<"Demo Mode: AI analysis skipped.">>

\* str.replace(cc, ''): the occurrences of the two-character string cc, left to right
RECURSIVE Replace2(_, _)
Replace2(s, c) ==
    IF Len(s) < 2 THEN s
    ELSE IF s[1] = c /\ s[2] = c THEN Replace2(SubSeq(s, 3, Len(s)), c)
    ELSE <<s[1]>> \o Replace2(Tail(s), c)

\* response.text.replace('**', '').replace('##', '')
Sanitize(text) == Replace2(Replace2(text, "*"), "#")

\* what generate_content may do: raise (also when .text raises), or answer a text
ReplyTexts ==
    { <<"#", "#", "R", "O", "I", "*", "*">>,
      <<"*", "#", "#", "*", "u", "p">> }

Replies ==
    {[ok |-> FALSE, text |-> <<>>]} \cup {[ok |-> TRUE, text |-> t] : t \in ReplyTexts}

\* if self.api_key and self.model
UseModel(key, mdl) == Truthy(key) /\ mdl # None

\* the try/except of lines 208-213
Generated(reply) == IF reply.ok THEN Sanitize(reply.text) ELSE AIUnavailable

\* mutant: the narrative stage also rewrites a computed number
SetNarrativeAndDelta(data, text) ==
    [data EXCEPT !.narrative = text, !.delta.spend_pct = FromInt(0)]

SetNarrative(data, text) == [data EXCEPT !.narrative = text]

\* the body of the loop for one client
Narrate(data, reply, use) ==
    SetNarrative(data, IF use THEN Generated(reply) ELSE DemoMode)

\* mutant: no try/except, the first failed call ends the loop
RECURSIVE generate_loop_abort(_, _, _, _)
generate_loop_abort(reports, keys, reply, use) ==
    IF keys = <<>> \/ (use /\ ~reply[Head(keys)].ok) THEN reports
    ELSE generate_loop_abort(
             [reports EXCEPT ![Head(keys)] = Narrate(reports[Head(keys)], reply[Head(keys)], use)],
             Tail(keys), reply, use)

\* the loop over self.client_reports.items()
RECURSIVE generate_loop(_, _, _, _)
generate_loop(reports, keys, reply, use) ==
    IF keys = <<>> THEN reports
    ELSE generate_loop(
             [reports EXCEPT ![Head(keys)] = Narrate(reports[Head(keys)], reply[Head(keys)], use)],
             Tail(keys), reply, use)

\* mutant: a failed call is made a second time
RECURSIVE CallsWithRetry(_, _, _)
CallsWithRetry(keys, reply, use) ==
    IF ~use \/ keys = <<>> THEN <<>>
    ELSE LET call == [client |-> Head(keys), reply |-> reply[Head(keys)]]
         IN  (IF call.reply.ok THEN <<call>> ELSE <<call, call>>)
             \o CallsWithRetry(Tail(keys), reply, use)

\* the generate_content calls the loop makes, in order, each with its outcome
CallsMade(keys, reply, use) ==
    IF use THEN [i \in 1..Len(keys) |-> [client |-> keys[i], reply |-> reply[keys[i]]]]
    ELSE <<>>

-----------------------------------------------------------------------------
(* State machine *)

NoDate == Date(0, 0, 0)

NoReports == [c \in {} |-> Pending]

InitApp ==
    /\ pc = "start"
    /\ ret = FALSE
    /\ api_key = None
    /\ model = None
    /\ model_name = "Unknown"
    /\ df = <<>>
    /\ period = [last_date |-> NoDate, current_month_start |-> NoDate,
                 prev_month_end |-> NoDate, prev_month_start |-> NoDate]
    /\ reporting_period = [month |-> "Unknown", year |-> 0]
    /\ client_reports = NoReports
    /\ order = <<>>
    /\ calls = <<>>

Init == svc \in PipelineServices /\ InitApp

InitProbe == svc \in AllServices /\ InitApp

\* get_api_key, the key dialog answering `entered`
GetApiKey(entered) ==
    /\ pc = "start"
    /\ api_key' = entered
    /\ LET found == IF Truthy(entered) THEN find_working_model(svc) ELSE None
       IN  IF Truthy(found)
           THEN model_name' = found /\ model' = found /\ ret' = TRUE
           ELSE UNCHANGED <<model_name, model>> /\ ret' = FALSE
    /\ pc' = "keyed"
    /\ UNCHANGED <<svc, df, period, reporting_period, client_reports, order, calls>>

\* if app.get_api_key(): ... (line 297)
MainGate ==
    /\ pc = "keyed"
    /\ pc' = IF ret THEN "select" ELSE "stopped"
    /\ UNCHANGED <<svc, ret, api_key, model, model_name, df, period,
                   reporting_period, client_reports, order, calls>>

\* a caller of the class that goes on whatever get_api_key returned
ApiGate ==
    /\ pc = "keyed"
    /\ pc' = "select"
    /\ UNCHANGED <<svc, ret, api_key, model, model_name, df, period,
                   reporting_period, client_reports, order, calls>>

\* path = select_file(); if path: load_data(path), the file holding one of `files`
LoadData(files) ==
    /\ pc = "select"
    /\ \E f \in files : df' = f
    /\ pc' = "loaded"
    /\ UNCHANGED <<svc, ret, api_key, model, model_name, period,
                   reporting_period, client_reports, order, calls>>

\* the file dialog is cancelled: nothing more runs
CancelFile ==
    /\ pc = "select"
    /\ pc' = "stopped"
    /\ UNCHANGED <<svc, ret, api_key, model, model_name, df, period,
                   reporting_period, client_reports, order, calls>>

Analyze ==
    /\ pc = "loaded"
    /\ period' = Periods(df)
    /\ reporting_period' = StrfMonthYear(Periods(df).current_month_start)
    /\ LET keys == Reporting(df)
       IN  /\ \E best \in [SeqToSet(keys) -> SeqToSet(Channels)] :
                /\ \A c \in SeqToSet(keys) : best[c] \in BestChannels(curr_df(df, c))
                /\ client_reports' =
                       [c \in DOMAIN client_reports \cup SeqToSet(keys) |->
                           IF c \in SeqToSet(keys) THEN Report(df, c, best[c])
                           ELSE client_reports[c]]
           /\ order' = order \o SelectSeq(keys, LAMBDA c : c \notin SeqToSet(order))
    /\ pc' = "analysed"
    /\ UNCHANGED <<svc, ret, api_key, model, model_name, df, calls>>

GenerateReportText ==
    /\ pc = "analysed"
    /\ \E reply \in [DOMAIN client_reports -> Replies] :
         /\ client_reports' = generate_loop(client_reports, order, reply, UseModel(api_key, model))
         /\ calls' = calls \o CallsMade(order, reply, UseModel(api_key, model))
    /\ pc' = "generated"
    /\ UNCHANGED <<svc, ret, api_key, model, model_name, df, period,
                   reporting_period, order>>

\* the program: the __main__ block
Next ==
    \/ \E entered \in KeyInputs : GetApiKey(entered)
    \/ MainGate
    \/ LoadData(GridDatasets)
    \/ CancelFile
    \/ Analyze
    \/ GenerateReportText

Spec == Init /\ [][Next]_vars

\* the operations called in the order of __main__ by a caller that does not stop
\* when get_api_key returns False
NextApi ==
    \/ \E entered \in KeyInputs : GetApiKey(entered)
    \/ ApiGate
    \/ LoadData(SmallDatasets)
    \/ Analyze
    \/ GenerateReportText

SpecApi == Init /\ [][NextApi]_vars

\* capability discovery against every answer of the service
NextProbe ==
    \/ \E entered \in KeyInputs : GetApiKey(entered)
    \/ MainGate

SpecProbe == InitProbe /\ [][NextProbe]_vars

\* the program on the datasets of the calendar years
NextPeriod ==
    \/ \E entered \in KeyInputs : GetApiKey(entered)
    \/ MainGate
    \/ LoadData(CalendarDatasets)
    \/ CancelFile
    \/ Analyze
    \/ GenerateReportText

SpecPeriod == Init /\ [][NextPeriod]_vars

-----------------------------------------------------------------------------
(* Properties.  The periods and row subsets below are stated from the      *)
(* calendar month of the latest date, not with the operators of analyze.   *)

Analysed == pc \in {"analysed", "generated"}

Clients == DOMAIN client_reports

LexLE(a, b) ==
    \/ a.y < b.y
    \/ a.y = b.y /\ a.m < b.m
    \/ a.y = b.y /\ a.m = b.m /\ a.d <= b.d

LatestDate ==
    LET ds == {df[i].date : i \in 1..Len(df)}
    IN  CHOOSE x \in ds : \A e \in ds : LexLE(e, x)

LastMonth ==
    IF LatestDate.m = 1 THEN [y |-> LatestDate.y - 1, m |-> 12]
    ELSE [y |-> LatestDate.y, m |-> LatestDate.m - 1]

InCurrentMonth(r) == r.date.y = LatestDate.y /\ r.date.m = LatestDate.m

InLastMonth(r) == r.date.y = LastMonth.y /\ r.date.m = LastMonth.m

CurrentRows(c) == SelectSeq(df, LAMBDA r : r.company = c /\ InCurrentMonth(r))

LastMonthRows(c) == SelectSeq(df, LAMBDA r : r.company = c /\ InLastMonth(r))

MeanRoi(rows, ch) ==
    RatMean(RoiCol(SelectSeq(rows, LAMBDA r : r.channel = ch)))

Aggregate(rows) ==
    [spend |-> RatSum(CostCol(rows)),
     roi   |-> RatMean(RoiCol(rows)),
     conv  |-> RatMulInt(RatMean(ConvCol(rows)), 100)]

One == [n |-> 1, d |-> 1]

\* delta = (curr - prev) / prev * 100; inf, -inf or nan when prev is zero
IsPct(delta, curr, prev) ==
    LET diff == RatSub(curr, prev)
    IN  IF prev.n = 0 THEN delta = [n |-> Sign(diff.n), d |-> 0]
        ELSE /\ delta.d # 0
             /\ delta.n * diff.d * prev.n = 100 * diff.n * prev.d * delta.d

CleanText(t) ==
    IF t = <<"#", "#", "R", "O", "I", "*", "*">> THEN <<"R", "O", "I">>
    ELSE <<"*", "*", "u", "p">>

Outcome(reply) == IF reply.ok THEN CleanText(reply.text) ELSE <<"AI Unavailable.">>

DiscoveryFailed == pc # "start" /\ Truthy(api_key) /\ ~ret

\* C1: when capability discovery fails the run still loads and analyses the
\* dataset, and every report carries the demo-mode narrative with no call made
\* to the service: a run never ends after a failed discovery without a dataset.
C1_DemoModeRun ==
    (DiscoveryFailed /\ pc \in {"stopped", "generated"}) =>
        /\ df # <<>>
        /\ pc = "generated"
        /\ \A c \in Clients : client_reports[c].narrative = <<"Demo Mode: AI analysis skipped.">>
        /\ calls = <<>>

\* C2: after generate_report_text every client analyze reported still has its
\* report; the generation stage ran once for each, in loop order, and each
\* narrative is that client's own outcome: the fallback string where its call
\* failed, the cleaned text where it succeeded, whatever the other calls did.
C2_FailureLocalized ==
    pc = "generated" =>
        /\ Clients = {df[i].company : i \in {j \in 1..Len(df) : InCurrentMonth(df[j])}}
        /\ SeqToSet(order) = Clients
        /\ Len(calls) = Len(order)
        /\ \A i \in 1..Len(order) :
              /\ calls[i].client = order[i]
              /\ client_reports[order[i]].narrative = Outcome(calls[i].reply)

\* C2 witness: the first call of the loop failed and a later one succeeded.
C2_Witness ==
    /\ pc = "generated"
    /\ Len(calls) = 2
    /\ ~calls[1].reply.ok
    /\ calls[2].reply.ok
    /\ client_reports[order[1]].narrative = <<"AI Unavailable.">>
    /\ client_reports[order[2]].narrative = CleanText(calls[2].reply.text)

AvailableSet ==
    {svc.listing[i].name : i \in {j \in 1..Len(svc.listing) : svc.listing[j].gen}}

\* C3: when the models that support generateContent include a priority-list
\* entry, find_working_model returns the earliest such entry of the list,
\* whatever the order of the enumeration.
C3_HighestPriority ==
    (pc # "start" /\ Truthy(api_key) /\ ~svc.raises
        /\ AvailableSet \cap {GeminiPro15, GeminiFlash15, GeminiPro} # {}) =>
        /\ ret
        /\ model_name = (IF GeminiPro15 \in AvailableSet THEN GeminiPro15
                         ELSE IF GeminiFlash15 \in AvailableSet THEN GeminiFlash15
                         ELSE GeminiPro)
        /\ model = model_name

\* C3 witness: the service lists a lower-priority and a non-priority model
\* before the highest-priority one, and the highest-priority one is returned.
C3_Witness ==
    /\ pc = "keyed"
    /\ Len(svc.listing) >= 3
    /\ svc.listing[1] = ModelEntry(GeminiProLatest, TRUE)
    /\ svc.listing[2] = ModelEntry(GeminiPro, TRUE)
    /\ svc.listing[3] = ModelEntry(GeminiPro15, TRUE)
    /\ model_name = GeminiPro15

\* C4: after analyze the clients with a report are exactly the companies with
\* a row in the month of the latest date, one report each.
C4_ReportsExactlyCurrentClients ==
    Analysed =>
        /\ Clients = {df[i].company : i \in {j \in 1..Len(df) : InCurrentMonth(df[j])}}
        /\ SeqToSet(order) = Clients
        /\ Len(order) = Cardinality(Clients)

\* C4 witness: one company of the dataset has a report and another, with rows
\* only before the current month, has none.
C4_Witness ==
    /\ Analysed
    /\ Clients # {}
    /\ \E i \in 1..Len(df) : df[i].company \notin Clients

\* C5: current.end is the latest date D, current.start the first day of D's
\* month, previous.end the day before current.start (the last day of the
\* month before, December of the year before when D is in January),
\* previous.start the first day of previous.end's month; no period ends
\* before it starts.
C5_Periods ==
    Analysed =>
        LET D == LatestDate
        IN  /\ period.last_date = D
            /\ period.current_month_start = Date(D.y, D.m, 1)
            /\ ToOrdinal(period.prev_month_end) = ToOrdinal(period.current_month_start) - 1
            /\ period.prev_month_end =
                   (IF D.m = 1 THEN Date(D.y - 1, 12, 31)
                    ELSE Date(D.y, D.m - 1, DaysInMonth(D.y, D.m - 1)))
            /\ period.prev_month_start =
                   Date(period.prev_month_end.y, period.prev_month_end.m, 1)
            /\ LexLE(period.current_month_start, period.last_date)
            /\ LexLE(period.prev_month_start, period.prev_month_end)
            /\ reporting_period = [month |-> MonthNames[D.m], year |-> D.y]

\* C5 witness: the latest date is in January and the previous period is
\* December of the year before.
C5_Witness ==
    /\ Analysed
    /\ period.last_date = Date(2024, 1, 15)
    /\ period.prev_month_start = Date(2023, 12, 1)
    /\ period.prev_month_end = Date(2023, 12, 31)

\* C6: for every client with a report, each of the three deltas is computed
\* with a nonzero previous value.
C6_NoZeroDivisor ==
    Analysed =>
        \A c \in Clients :
            /\ client_reports[c].prev.spend.n # 0
            /\ client_reports[c].prev.roi.n # 0
            /\ client_reports[c].prev.conv.n # 0

\* C7: best_channel is a channel of the client's current-month rows,
\* best_channel_roi is the mean ROI of that channel over those rows, and no
\* channel of those rows has a greater mean ROI.
C7_BestChannel ==
    Analysed =>
        \A c \in Clients :
            LET rows == CurrentRows(c)
                rep == client_reports[c]
            IN  /\ rep.best_channel \in {rows[i].channel : i \in 1..Len(rows)}
                /\ rep.best_channel_roi = MeanRoi(rows, rep.best_channel)
                /\ \A i \in 1..Len(rows) :
                      LET m == MeanRoi(rows, rows[i].channel)
                      IN  rep.best_channel_roi.n * m.d >= m.n * rep.best_channel_roi.d

\* C7 witness: a client whose current-month rows are of two channels with
\* different mean ROI, and who also has a row in the previous month.
C7_Witness ==
    /\ Analysed
    /\ \E c \in Clients :
          /\ LastMonthRows(c) # <<>>
          /\ \E i \in 1..Len(CurrentRows(c)) :
                MeanRoi(CurrentRows(c), CurrentRows(c)[i].channel)
                    # client_reports[c].best_channel_roi

\* C8: before generate_report_text every narrative is the pending placeholder
\* and no call was made; after it none is pending: with a model each report
\* holds the cleaned text or the failure fallback and the service was called
\* exactly once per client, without a model each holds the demo-mode string
\* and the service was not called.
C8_OneTerminalOutcome ==
    /\ pc # "generated" =>
          /\ calls = <<>>
          /\ \A c \in Clients : client_reports[c].narrative = <<"Pending...">>
    /\ pc = "generated" =>
          IF Truthy(api_key) /\ model # None
          THEN /\ \A c \in Clients :
                    /\ client_reports[c].narrative \in
                           {CleanText(t) : t \in ReplyTexts} \cup {<<"AI Unavailable.">>}
                    /\ Cardinality({i \in 1..Len(calls) : calls[i].client = c}) = 1
               /\ \A i \in 1..Len(calls) : calls[i].client \in Clients
          ELSE /\ \A c \in Clients :
                    client_reports[c].narrative = <<"Demo Mode: AI analysis skipped.">>
               /\ calls = <<>>

\* C8 witness: with a model, two clients, and one of the two calls failed.
C8_Witness ==
    /\ pc = "generated"
    /\ model # None
    /\ Cardinality(Clients) = 2
    /\ Len(calls) = 2
    /\ \E i \in 1..2 : ~calls[i].reply.ok

Numbers(rep) ==
    <<rep.current, rep.prev, rep.delta, rep.best_channel, rep.best_channel_roi>>

\* C9: generate_report_text keeps the set of reports and, in each report, the
\* current and previous metrics, the deltas, the best channel and its ROI.
C9_NarrativeOnly ==
    [][pc = "analysed" =>
         /\ DOMAIN client_reports' = DOMAIN client_reports
         /\ \A c \in DOMAIN client_reports :
               Numbers(client_reports'[c]) = Numbers(client_reports[c])]_vars

\* C9 witness: the stage ran without a model (skipped) over a report whose
\* deltas are not zero.
C9_Witness ==
    /\ pc = "generated"
    /\ model = None
    /\ \E c \in Clients :
          /\ client_reports[c].narrative = <<"Demo Mode: AI analysis skipped.">>
          /\ client_reports[c].delta.spend_pct # FromInt(0)

\* C10 as stated: the stored previous MetricSet is the sentinel if and only
\* if the client has no row in the previous month.
C10_SentinelIff ==
    Analysed =>
        \A c \in Clients :
            (client_reports[c].prev = [spend |-> One, roi |-> One, conv |-> One])
                <=> (LastMonthRows(c) = <<>>)

\* C10 amended: with no row in the previous month the stored previous
\* MetricSet is the sentinel and each delta is (curr - 1) * 100; with at least
\* one it is the aggregate of those rows (sum of cost, mean ROI, mean
\* conversion x 100) and each delta is (curr - prev) / prev * 100 against it.
C10_PrevMetrics ==
    Analysed =>
        \A c \in Clients :
            LET rep == client_reports[c]
                cur == Aggregate(CurrentRows(c))
            IN  /\ rep.current = cur
                /\ IF LastMonthRows(c) = <<>>
                   THEN /\ rep.prev = [spend |-> One, roi |-> One, conv |-> One]
                        /\ rep.delta.spend_pct = RatMulInt(RatSub(cur.spend, One), 100)
                        /\ rep.delta.roi_pct = RatMulInt(RatSub(cur.roi, One), 100)
                        /\ rep.delta.conv_pct = RatMulInt(RatSub(cur.conv, One), 100)
                   ELSE /\ rep.prev = Aggregate(LastMonthRows(c))
                        /\ IsPct(rep.delta.spend_pct, cur.spend, rep.prev.spend)
                        /\ IsPct(rep.delta.roi_pct, cur.roi, rep.prev.roi)
                        /\ IsPct(rep.delta.conv_pct, cur.conv, rep.prev.conv)

\* C10 witness: a client with rows two months back but none in the previous
\* month gets the sentinel.
C10_Witness ==
    /\ Analysed
    /\ \E c \in Clients :
          /\ LastMonthRows(c) = <<>>
          /\ Len(c_df(df, c)) > Len(CurrentRows(c))
          /\ client_reports[c].prev.spend = One
          /\ client_reports[c].delta.spend_pct = FromInt(-100)

====
